---------------------------- MODULE Spec2Model ----------------------------
(* Model of deeplab2's prediction-to-artifact encoding (trainer/vis.py)    *)
(* and of the pooling/validation interface of the model that              *)
(* model/deeplab_test.py exercises.                                       *)
(*                                                                        *)
(* Arrays are modelled as sequences of pixels in row-major order (every   *)
(* operation of vis.py on them is element-wise, or a maximum over all     *)
(* elements); a multi-channel array is a sequence of tuples.  A python    *)
(* dict is a function from its keys.  A string the code searches in       *)
(* (dataset_name) is a sequence of one-character strings.  A written      *)
(* artifact is the argument list of the call that writes it.              *)
EXTENDS Integers, Sequences, FiniteSets, TLC

VARIABLES
  pc,                  \* "ready": arguments drawn, "done": the call returned or raised
  predictions,         \* dict: key -> array (batch dimension already squeezed)
  labels,              \* the (semantic_label, instance_id) pairs the panoptic map encodes
  dataset_info,        \* dataset.DatasetDescriptor
  raw_panoptic_format, \* argument of store_raw_predictions
  convert_to_eval,     \* argument of store_raw_predictions
  image_filename,      \* argument of store_raw_predictions
  sequence,            \* argument of store_raw_predictions
  raised,              \* the exception the call ended with, "None" if it returned
  files,               \* the artifacts the call wrote, in order
  locals,              \* predicted_semantic_labels / predicted_instance_labels of the call
  inputs,              \* argument of store_predictions: dict key -> array
  image_id,            \* argument of store_predictions
  flow,                \* the images vis_utils.flow_to_color returns to the call
  config,              \* the options the latest DeepLab(...) was constructed from
  model,               \* the DeepLab object the latest construction returned
  last_call            \* the latest call on deeplab.DeepLab

rawVars == <<raw_panoptic_format, convert_to_eval, image_filename, sequence,
             labels, locals>>
visVars == <<inputs, image_id, flow>>
modelVars == <<config, model, last_call>>

vars == <<pc, predictions, dataset_info, raised, files, rawVars, visVars,
          modelVars>>

-----------------------------------------------------------------------------
(* Bounds of the model.                                                    *)

\* Number of pixels of an image (height * width).
NumPixels == 2
\* Largest height and width of an ASPP pooling window.
MaxPoolEdge == 3
\* Largest label divisor of the round-trip check.
MaxDivisor == 4
\* Largest semantic label of the round-trip check.
MaxSemanticLabel == 3
\* Largest train id handed to the eval-id conversion.
MaxTrainId == 255

-----------------------------------------------------------------------------
(* Program constants.                                                      *)

\* Largest value of an 8-bit PNG channel.
MaxChannel == 255
\* Largest instance id the G and B channels hold together.
MaxTwoChannels == 65535
\* Radix of the G/B split of the instance id.
ChannelRadix == 256
\* Minimal length of the train-id -> eval-id lookup array.
MinMapLength == 256

CITYSCAPES_TRAIN_ID_TO_EVAL_ID ==
  <<7, 8, 11, 12, 13, 17, 19, 20, 21, 22, 23, 24, 25, 26, 27, 28, 31, 32, 33, 0>>

TARGET_SEMANTIC_KEY == "semantic_pred"
TARGET_PANOPTIC_KEY == "panoptic_pred"
TARGET_CENTER_HEATMAP_KEY == "center_heatmap"
TARGET_OFFSET_MAP_KEY == "offset_map"
TARGET_INSTANCE_KEY == "instance_pred"
IMAGE == "image"
IMAGE_NAME == "image_name"
GT_SEMANTIC_RAW == "semantic_raw"
GT_SEMANTIC_KEY == "semantic_target"
GT_INSTANCE_CENTER_KEY == "instance_center_target"
GT_INSTANCE_REGRESSION_KEY == "instance_regression_target"
GT_PANOPTIC_RAW == "panoptic_raw"

\* The <kind> of the filename templates '%06d_<kind>'.
IMAGE_FORMAT == "image"
CENTER_LABEL_FORMAT == "center_label"
OFFSET_LABEL_FORMAT == "offset_label"
PANOPTIC_LABEL_FORMAT == "panoptic_label"
SEMANTIC_LABEL_FORMAT == "semantic_label"
INSTANCE_PREDICTION_FORMAT == "instance_prediction"
CENTER_HEATMAP_PREDICTION_FORMAT == "center_prediction"
OFFSET_PREDICTION_RGB_FORMAT == "offset_prediction_rgb"
PANOPTIC_PREDICTION_FORMAT == "panoptic_prediction"
SEMANTIC_PREDICTION_FORMAT == "semantic_prediction"
ANALYSIS_FORMAT == "semantic_error"

\* The field width of '%06d'.
FieldWidth == 6
\* Number of values of np.uint8.
Uint8Modulus == 256
\* The value of a wrong pixel in the semantic error mask.
ErrorValue == 255

\* The literal 'cityscapes' of the dataset test.
CityscapesLiteral == <<"c", "i", "t", "y", "s", "c", "a", "p", "e", "s">>

-----------------------------------------------------------------------------
(* Helpers: python / numpy primitives.                                     *)

Max(a, b) == IF a >= b THEN a ELSE b

\* np.max over a non-empty array.
ArrayMax(arr) == CHOOSE m \in {arr[i] : i \in DOMAIN arr} :
                   \A i \in DOMAIN arr : arr[i] <= m

\* python's `sub in s` on strings.
Contains(sub, s) ==
  \E k \in 0..(Len(s) - Len(sub)) :
    \A j \in 1..Len(sub) : s[k + j] = sub[j]

\* os.path.splitext(name)[0]: the name without its extension.
SplitextRoot(name) == name.root

-----------------------------------------------------------------------------
(* _convert_cityscapes_train_id_to_eval_id                                 *)

\* ToEvalIdMap built from np.ones: ids past the table map to 1.
ToEvalIdMapOnes ==
  LET length == Max(MinMapLength, Len(CITYSCAPES_TRAIN_ID_TO_EVAL_ID))
  IN  [i \in 0..(length - 1) |->
         IF i < Len(CITYSCAPES_TRAIN_ID_TO_EVAL_ID)
           THEN CITYSCAPES_TRAIN_ID_TO_EVAL_ID[i + 1]
           ELSE 1]

\* to_eval_id_map: zeros of length max(256, len(table)), the table copied to
\* its front.  Indexed from 0 as in the code.
ToEvalIdMap ==
  LET length == Max(MinMapLength, Len(CITYSCAPES_TRAIN_ID_TO_EVAL_ID))
  IN  [i \in 0..(length - 1) |->
         IF i < Len(CITYSCAPES_TRAIN_ID_TO_EVAL_ID)
           THEN CITYSCAPES_TRAIN_ID_TO_EVAL_ID[i + 1]
           ELSE 0]

\* numpy integer indexing accepts -length <= i < length (negative indices
\* count from the end) and raises IndexError otherwise.
IndexInBounds(i) ==
  LET length == Max(MinMapLength, Len(CITYSCAPES_TRAIN_ID_TO_EVAL_ID))
  IN  i >= -length /\ i < length

LookupEvalId(i) ==
  LET length == Max(MinMapLength, Len(CITYSCAPES_TRAIN_ID_TO_EVAL_ID))
  IN  IF i >= 0 THEN ToEvalIdMap[i] ELSE ToEvalIdMap[i + length]

\* to_eval_id_map[prediction]: element-wise lookup; the whole call raises
\* IndexError when one element is out of bounds.
ConvertCityscapesTrainIdToEvalId(prediction) ==
  IF \A p \in DOMAIN prediction : IndexInBounds(prediction[p])
    THEN [raised |-> "None",
          value  |-> [p \in DOMAIN prediction |-> LookupEvalId(prediction[p])]]
    ELSE [raised |-> "IndexError", value |-> <<>>]

-----------------------------------------------------------------------------
(* store_raw_predictions                                                   *)

\* DecodeInstance with the channel radix in place of the label divisor.
DecodeInstanceByRadix(panoptic, divisor) ==
  [p \in DOMAIN panoptic |-> panoptic[p] % ChannelRadix]

\* panoptic_prediction // dataset_info.panoptic_label_divisor
DecodeSemantic(panoptic, divisor) ==
  [p \in DOMAIN panoptic |-> panoptic[p] \div divisor]

\* predictions[TARGET_PANOPTIC_KEY] % dataset_info.panoptic_label_divisor
DecodeInstance(panoptic, divisor) ==
  [p \in DOMAIN panoptic |-> panoptic[p] % divisor]

\* os.path.join(save_dir, kind), plus the seq_name for a video dataset.
OutputFolder(kind, info, seq_name) ==
  IF info.is_video_dataset THEN <<"save_dir", kind, seq_name>>
                           ELSE <<"save_dir", kind>>

\* One call of vis_utils.save_annotation(label, save_dir, filename,
\* add_colormap=False).
SaveAnnotation(label, folder, filename) ==
  [writer |-> "save_annotation", folder |-> folder, filename |-> filename,
   data |-> label, add_colormap |-> FALSE]

\* np.save into GFile(os.path.join(output_folder, image_name + '.npy')).
NpSave(array, folder, filename) ==
  [writer |-> "np.save", folder |-> folder,
   filename |-> [root |-> filename, ext |-> ".npy"], data |-> array]

\* RawSemantic without the dataset test: every dataset is converted.
RawSemanticAnyDataset(preds, info, convert) ==
  IF convert
    THEN ConvertCityscapesTrainIdToEvalId(preds[TARGET_SEMANTIC_KEY])
    ELSE [raised |-> "None", value |-> preds[TARGET_SEMANTIC_KEY]]

\* Lines 143-152: the semantic prediction, converted when convert_to_eval.
RawSemantic(preds, info, convert) ==
  IF convert
    THEN IF Contains(CityscapesLiteral, info.dataset_name)
           THEN ConvertCityscapesTrainIdToEvalId(preds[TARGET_SEMANTIC_KEY])
           ELSE [raised |-> "UnsupportedDataset", value |-> <<>>]
    ELSE [raised |-> "None", value |-> preds[TARGET_SEMANTIC_KEY]]

\* CheckTwoChannel with the instance limit of 'three_channel_png'.
CheckTwoChannelWideInstance(sem, inst) ==
  IF ArrayMax(sem) > MaxChannel THEN "OverflowSemantic"
  ELSE IF ArrayMax(inst) > MaxTwoChannels THEN "OverflowInstance"
  ELSE "None"

\* Lines 185-192: the range checks of 'two_channel_png'.
CheckTwoChannel(sem, inst) ==
  IF ArrayMax(sem) > MaxChannel THEN "OverflowSemantic"
  ELSE IF ArrayMax(inst) > MaxChannel THEN "OverflowInstance"
  ELSE "None"

\* Lines 200-207: the range checks of 'three_channel_png'.
CheckThreeChannel(sem, inst) ==
  IF ArrayMax(sem) > MaxChannel THEN "OverflowSemantic"
  ELSE IF ArrayMax(inst) > MaxTwoChannels THEN "OverflowInstance"
  ELSE "None"

\* TwoChannelOutputs with panoptic_outputs of dtype uint8.
TwoChannelOutputsUint8(sem, inst) ==
  [p \in DOMAIN sem |-> <<sem[p] % 256, inst[p] % 256, 0>>]

\* Lines 169-171, 193-194 and 216-217: panoptic_outputs, zeros of the dtype
\* of the panoptic prediction, with channels 0 and 1 assigned.
TwoChannelOutputs(sem, inst) ==
  [p \in DOMAIN sem |-> <<sem[p], inst[p], 0>>]

\* ThreeChannelOutputs with the quotient and the remainder swapped.
ThreeChannelOutputsSwapped(sem, inst) ==
  [p \in DOMAIN sem |->
     <<sem[p], inst[p] % ChannelRadix, inst[p] \div ChannelRadix>>]

\* Lines 169-171 and 208-210: panoptic_outputs with the instance id split
\* over channels 1 and 2.
ThreeChannelOutputs(sem, inst) ==
  [p \in DOMAIN sem |->
     <<sem[p], inst[p] \div ChannelRadix, inst[p] % ChannelRadix>>]

\* EncodePanoptic without the final else: a format that is not a PNG format
\* is saved as a numpy array.
EncodePanopticNoElse(sem, inst, format, folder, filename) ==
  CASE format = "two_channel_png" ->
         IF CheckTwoChannel(sem, inst) # "None"
           THEN [raised |-> CheckTwoChannel(sem, inst), files |-> <<>>]
           ELSE [raised |-> "None",
                 files |-> <<SaveAnnotation(TwoChannelOutputs(sem, inst),
                                            folder, filename)>>]
    [] format = "three_channel_png" ->
         IF CheckThreeChannel(sem, inst) # "None"
           THEN [raised |-> CheckThreeChannel(sem, inst), files |-> <<>>]
           ELSE [raised |-> "None",
                 files |-> <<SaveAnnotation(ThreeChannelOutputs(sem, inst),
                                            folder, filename)>>]
    [] OTHER ->
         [raised |-> "None",
          files |-> <<NpSave(TwoChannelOutputs(sem, inst), folder, filename)>>]

\* Lines 184-223: the encoding of the panoptic output chosen by
\* raw_panoptic_format.  The result is the exception raised and the
\* artifact written (at most one).
EncodePanoptic(sem, inst, format, folder, filename) ==
  CASE format = "two_channel_png" ->
         IF CheckTwoChannel(sem, inst) # "None"
           THEN [raised |-> CheckTwoChannel(sem, inst), files |-> <<>>]
           ELSE [raised |-> "None",
                 files |-> <<SaveAnnotation(TwoChannelOutputs(sem, inst),
                                            folder, filename)>>]
    [] format = "three_channel_png" ->
         IF CheckThreeChannel(sem, inst) # "None"
           THEN [raised |-> CheckThreeChannel(sem, inst), files |-> <<>>]
           ELSE [raised |-> "None",
                 files |-> <<SaveAnnotation(ThreeChannelOutputs(sem, inst),
                                            folder, filename)>>]
    [] format = "two_channel_numpy_array" ->
         [raised |-> "None",
          files |-> <<NpSave(TwoChannelOutputs(sem, inst), folder, filename)>>]
    [] OTHER ->
         [raised |-> "UnknownFormat", files |-> <<>>]

\* A local variable the call never assigned.
Unset == <<>>

NoLocals == [predicted_semantic_labels |-> Unset,
             predicted_instance_labels |-> Unset]

\* A panoptic part that validates before anything is written: a failing
\* call leaves no artifact behind.
RawPanopticAllOrNothing(preds, info, format, convert, filename, seq_name, first) ==
  LET ids  == DecodeSemantic(preds[TARGET_PANOPTIC_KEY],
                             info.panoptic_label_divisor)
      sem  == IF convert THEN ConvertCityscapesTrainIdToEvalId(ids)
                         ELSE [raised |-> "None", value |-> ids]
      inst == DecodeInstance(preds[TARGET_PANOPTIC_KEY],
                             info.panoptic_label_divisor)
      enc  == EncodePanoptic(sem.value, inst, format,
                             OutputFolder("raw_panoptic", info, seq_name),
                             filename)
  IN  IF sem.raised # "None"
        THEN [raised |-> sem.raised, files |-> <<>>,
              locals |-> [predicted_semantic_labels |-> ids,
                          predicted_instance_labels |-> Unset]]
      ELSE IF enc.raised # "None"
        THEN [raised |-> enc.raised, files |-> <<>>,
              locals |-> [predicted_semantic_labels |-> sem.value,
                          predicted_instance_labels |-> inst]]
      ELSE [raised |-> enc.raised, files |-> <<first>> \o enc.files,
            locals |-> [predicted_semantic_labels |-> sem.value,
                        predicted_instance_labels |-> inst]]

\* Lines 164-223: the panoptic part of the call, run after the raw semantic
\* artifact `first` was written.  `locals` are the labels the call decoded:
\* predicted_semantic_labels keeps the value of line 172 when the conversion
\* of line 175 raises.
RawPanoptic(preds, info, format, convert, filename, seq_name, first) ==
  LET ids  == DecodeSemantic(preds[TARGET_PANOPTIC_KEY],
                             info.panoptic_label_divisor)
      sem  == IF convert THEN ConvertCityscapesTrainIdToEvalId(ids)
                         ELSE [raised |-> "None", value |-> ids]
      inst == DecodeInstance(preds[TARGET_PANOPTIC_KEY],
                             info.panoptic_label_divisor)
      enc  == EncodePanoptic(sem.value, inst, format,
                             OutputFolder("raw_panoptic", info, seq_name),
                             filename)
  IN  IF sem.raised # "None"
        THEN [raised |-> sem.raised, files |-> <<first>>,
              locals |-> [predicted_semantic_labels |-> ids,
                          predicted_instance_labels |-> Unset]]
        ELSE [raised |-> enc.raised, files |-> <<first>> \o enc.files,
              locals |-> [predicted_semantic_labels |-> sem.value,
                          predicted_instance_labels |-> inst]]

\* The whole call: the exception it ends with, the artifacts it wrote, and
\* the labels it decoded from the panoptic map.
StoreRawResult(preds, image_name, info, seq_name, format, convert) ==
  LET filename == SplitextRoot(image_name)
      semantic == RawSemantic(preds, info, convert)
      first    == SaveAnnotation(semantic.value,
                                 OutputFolder("raw_semantic", info, seq_name),
                                 filename)
  IN  IF semantic.raised # "None"
        THEN [raised |-> semantic.raised, files |-> <<>>, locals |-> NoLocals]
      ELSE IF TARGET_PANOPTIC_KEY \in DOMAIN preds
        THEN RawPanoptic(preds, info, format, convert, filename, seq_name,
                         first)
      ELSE [raised |-> "None", files |-> <<first>>, locals |-> NoLocals]

-----------------------------------------------------------------------------
(* store_predictions                                                       *)

\* The decimal digits of a natural number, most significant first.
RECURSIVE Digits(_)
Digits(n) == IF n < 10 THEN <<n>> ELSE Append(Digits(n \div 10), n % 10)

\* '%06d' % n: the digits of n, zero-padded on the left to six of them.
ZeroPadded(n) ==
  LET d   == Digits(n)
      pad == Max(FieldWidth - Len(d), 0)
  IN  [i \in 1..(pad + Len(d)) |-> IF i <= pad THEN 0 ELSE d[i - pad]]

\* '%06d_<kind>' % id
FormatName(kind, id) == [number |-> ZeroPadded(id), kind |-> kind]

\* _crop_like: tensor_to_crop[:h, :w, ...] for the h, w of crop_to_tensor.
CropLike(tensor_to_crop, crop_to_tensor) ==
  [p \in (DOMAIN tensor_to_crop) \cap (DOMAIN crop_to_tensor) |->
     tensor_to_crop[p]]

\* vis_utils.flow_to_color(flow_map): an image of the shape of flow_map, its
\* colours `rgb` left to the library.
FlowToColor(flow_map, rgb) == [p \in DOMAIN flow_map |-> rgb[p]]

\* np.unique: the sorted distinct values of an array.
RECURSIVE Sorted(_)
Sorted(S) ==
  IF S = {} THEN <<>>
  ELSE LET m == CHOOSE x \in S : \A y \in S : x <= y
       IN  <<m>> \o Sorted(S \ {m})

Unique(arr) == Sorted({arr[p] : p \in DOMAIN arr})

\* python's `x in list`.
InList(x, list) == \E i \in DOMAIN list : list[i] = x

\* A loop that keeps the pixels of the latest thing class only.
RECURSIVE FgMaskLoopOverwriting(_, _, _, _)
FgMaskLoopOverwriting(fg_mask, classes, label_map, thing_list) ==
  IF classes = <<>> THEN fg_mask
  ELSE LET class_id == Head(classes)
           updated  == IF InList(class_id, thing_list)
                         THEN [p \in DOMAIN label_map |->
                                 label_map[p] = class_id]
                         ELSE fg_mask
       IN  FgMaskLoopOverwriting(updated, Tail(classes), label_map,
                                 thing_list)

\* The loop of _get_fg_mask over the remaining classes.
RECURSIVE FgMaskLoop(_, _, _, _)
FgMaskLoop(fg_mask, classes, label_map, thing_list) ==
  IF classes = <<>> THEN fg_mask
  ELSE LET class_id == Head(classes)
           updated  == IF InList(class_id, thing_list)
                         THEN [p \in DOMAIN label_map |->
                                 fg_mask[p] \/ (label_map[p] = class_id)]
                         ELSE fg_mask
       IN  FgMaskLoop(updated, Tail(classes), label_map, thing_list)

\* _get_fg_mask: the mask with a third axis of length one, as integers.
GetFgMask(label_map, thing_list) ==
  LET fg_mask == FgMaskLoop([p \in DOMAIN label_map |-> FALSE],
                            Unique(label_map), label_map, thing_list)
  IN  [p \in DOMAIN label_map |-> <<IF fg_mask[p] THEN 1 ELSE 0>>]

\* rgb * mask, the mask broadcast over the three channels.
TimesMask(rgb, mask) ==
  [p \in DOMAIN rgb |-> [c \in 1..3 |-> rgb[p][c] * mask[p][1]]]

\* array.astype(np.uint8)
AsUint8(arr) == [p \in DOMAIN arr |-> arr[p] % Uint8Modulus]

\* Lines 328-331: the semantic error mask.
ErrorPrediction(semantic_prediction, gt_semantic_raw, ignore_label) ==
  LET label == AsUint8(gt_semantic_raw)
      wrong == [p \in DOMAIN label |->
                  (semantic_prediction[p] # label[p])
                  /\ (label[p] # ignore_label)]
  IN  [p \in DOMAIN label |->
         ((IF wrong[p] THEN 1 ELSE 0) * ErrorValue) % Uint8Modulus]

\* One call of vis_utils.save_annotation(label, save_dir, filename,
\* add_colormap=True, colormap_name=colormap_name).
SaveColormapped(label, folder, filename, colormap_name) ==
  [writer |-> "save_annotation", folder |-> folder, filename |-> filename,
   data |-> label, add_colormap |-> TRUE, colormap_name |-> colormap_name]

\* One call of vis_utils.save_parsing_result.
SaveParsingResult(parsing_result, label_divisor, thing_list, folder, filename, colormap_name) ==
  [writer |-> "save_parsing_result", folder |-> folder, filename |-> filename,
   data |-> parsing_result, label_divisor |-> label_divisor,
   thing_list |-> thing_list, colormap_name |-> colormap_name]

\* The image vis_utils.overlay_heatmap_on_image returns, left uninterpreted.
OverlayHeatmapOnImage(heatmap, image) ==
  [fn |-> "overlay_heatmap_on_image", heatmap |-> heatmap, image |-> image]

\* The image vis_utils.create_rgb_from_instance_map returns, left
\* uninterpreted.
CreateRgbFromInstanceMap(instance_map) ==
  [fn |-> "create_rgb_from_instance_map", instance_map |-> instance_map]

\* Lines 262-325: the artifacts written when the bundle holds a panoptic map.
\* `colors` are the images flow_to_color returns for the cropped offset
\* prediction and for the offset label.
PanopticArtifactsOf(preds, ins, id, info, colors) ==
  LET thing_list    == info.class_has_instances_list
      label_divisor == info.panoptic_label_divisor
      colormap_name == info.colormap
      center_offset_prediction ==
        CropLike(preds[TARGET_OFFSET_MAP_KEY], preds[TARGET_SEMANTIC_KEY])
      pred_fg_mask  == GetFgMask(preds[TARGET_SEMANTIC_KEY], thing_list)
      gt_fg_mask    == GetFgMask(ins[GT_SEMANTIC_KEY], thing_list)
  IN  << SaveAnnotation(
           OverlayHeatmapOnImage(preds[TARGET_CENTER_HEATMAP_KEY], ins[IMAGE]),
           <<"save_dir">>, FormatName(CENTER_HEATMAP_PREDICTION_FORMAT, id)),
         SaveAnnotation(
           OverlayHeatmapOnImage(ins[GT_INSTANCE_CENTER_KEY], ins[IMAGE]),
           <<"save_dir">>, FormatName(CENTER_LABEL_FORMAT, id)),
         SaveAnnotation(
           TimesMask(FlowToColor(center_offset_prediction, colors.prediction),
                     pred_fg_mask),
           <<"save_dir">>, FormatName(OFFSET_PREDICTION_RGB_FORMAT, id)),
         SaveAnnotation(
           TimesMask(FlowToColor(ins[GT_INSTANCE_REGRESSION_KEY], colors.label),
                     gt_fg_mask),
           <<"save_dir">>, FormatName(OFFSET_LABEL_FORMAT, id)),
         SaveAnnotation(
           CreateRgbFromInstanceMap(preds[TARGET_INSTANCE_KEY]),
           <<"save_dir">>, FormatName(INSTANCE_PREDICTION_FORMAT, id)),
         SaveParsingResult(
           preds[TARGET_PANOPTIC_KEY], label_divisor, thing_list,
           <<"save_dir">>, FormatName(PANOPTIC_PREDICTION_FORMAT, id),
           colormap_name),
         SaveParsingResult(
           ins[GT_PANOPTIC_RAW], label_divisor, thing_list,
           <<"save_dir">>, FormatName(PANOPTIC_LABEL_FORMAT, id),
           colormap_name) >>

\* A call that writes the error mask before the panoptic artifacts.
StorePredictionsErrorMaskEarly(preds, all_inputs, id, info, colors) ==
  LET ins == [k \in (DOMAIN all_inputs) \ {IMAGE_NAME} |-> all_inputs[k]]
      colormap_name == info.colormap
  IN  << SaveAnnotation(ins[IMAGE], <<"save_dir">>,
                        FormatName(IMAGE_FORMAT, id)),
         SaveColormapped(preds[TARGET_SEMANTIC_KEY], <<"save_dir">>,
                         FormatName(SEMANTIC_PREDICTION_FORMAT, id),
                         colormap_name),
         SaveColormapped(ins[GT_SEMANTIC_RAW], <<"save_dir">>,
                         FormatName(SEMANTIC_LABEL_FORMAT, id),
                         colormap_name),
         SaveAnnotation(
           ErrorPrediction(preds[TARGET_SEMANTIC_KEY],
                           ins[GT_SEMANTIC_RAW], info.ignore_label),
           <<"save_dir">>, FormatName(ANALYSIS_FORMAT, id)) >>
      \o (IF TARGET_PANOPTIC_KEY \in DOMAIN preds
            THEN PanopticArtifactsOf(preds, ins, id, info, colors)
            ELSE <<>>)

\* The whole call: the artifacts it writes, in order.
StorePredictionsResult(preds, all_inputs, id, info, colors) ==
  LET ins == [k \in (DOMAIN all_inputs) \ {IMAGE_NAME} |-> all_inputs[k]]
      colormap_name == info.colormap
  IN  << SaveAnnotation(ins[IMAGE], <<"save_dir">>,
                        FormatName(IMAGE_FORMAT, id)),
         SaveColormapped(preds[TARGET_SEMANTIC_KEY], <<"save_dir">>,
                         FormatName(SEMANTIC_PREDICTION_FORMAT, id),
                         colormap_name),
         SaveColormapped(ins[GT_SEMANTIC_RAW], <<"save_dir">>,
                         FormatName(SEMANTIC_LABEL_FORMAT, id),
                         colormap_name) >>
      \o (IF TARGET_PANOPTIC_KEY \in DOMAIN preds
            THEN PanopticArtifactsOf(preds, ins, id, info, colors)
            ELSE <<>>)
      \o << SaveAnnotation(
              ErrorPrediction(preds[TARGET_SEMANTIC_KEY],
                              ins[GT_SEMANTIC_RAW], info.ignore_label),
              <<"save_dir">>, FormatName(ANALYSIS_FORMAT, id)) >>

-----------------------------------------------------------------------------
(* Arguments the calls are checked on.                                     *)

Pixels == 1..NumPixels

cityscapes_panoptic ==
  CityscapesLiteral \o <<"_", "p", "a", "n", "o", "p", "t", "i", "c">>
cityscapes_dvps == CityscapesLiteral \o <<"_", "d", "v", "p", "s">>
kitti_step == <<"k", "i", "t", "t", "i", "_", "s", "t", "e", "p">>
coco_panoptic ==
  <<"c", "o", "c", "o", "_", "p", "a", "n", "o", "p", "t", "i", "c">>

\* A dataset.DatasetDescriptor with the fields vis.py reads.
DatasetDescriptor(name, video, divisor, ignore, things) ==
  [dataset_name |-> name, is_video_dataset |-> video,
   panoptic_label_divisor |-> divisor, ignore_label |-> ignore,
   class_has_instances_list |-> things, colormap |-> "cityscapes"]

\* The arguments of store_predictions while store_raw_predictions is called.
NoInputs == <<>>
NoFlow == <<>>
VisIdle == inputs = NoInputs /\ image_id = 0 /\ flow = NoFlow

\* No DeepLab model is involved in the calls of vis.py.
NoConfig == <<>>
NoModel == <<>>
NoCall == <<>>
ModelIdle == config = NoConfig /\ model = NoModel /\ last_call = NoCall

\* Label divisors: one below and one above the 16-bit instance range.
RawDivisors == {1000, 70000}

RawDatasetInfos ==
  { DatasetDescriptor(d[1], d[2], div, 255, <<>>) :
      d \in { <<cityscapes_panoptic, FALSE>>, <<cityscapes_dvps, TRUE>>,
              <<kitti_step, TRUE>>, <<coco_panoptic, FALSE>> },
      div \in RawDivisors }

\* Train ids of the semantic prediction: in the table, past the table.
RawSemanticIds == {1, 256}
\* Semantic labels and instance ids of the panoptic map, at the limits of
\* the PNG channels.
RawSemanticLabels == {1, 255, 256}
RawInstanceIds == {255, 256, 65535, 65536}

RawFormats == {"two_channel_png", "three_channel_png",
               "two_channel_numpy_array", "png"}

\* Panoptic encoding: semantic_label * divisor + instance_id.
EncodePanopticId(pair, divisor) == pair[1] * divisor + pair[2]

LabelPairs(semantics, instances, divisor) ==
  { <<s, i>> : s \in semantics, i \in {x \in instances : x < divisor} }

\* The prediction bundle: the semantic prediction, and the panoptic map
\* that encodes `pairs` unless `pairs` is empty.
Bundle(semantic, pairs, divisor) ==
  IF pairs = <<>>
    THEN [k \in {TARGET_SEMANTIC_KEY} |-> semantic]
    ELSE [k \in {TARGET_SEMANTIC_KEY, TARGET_PANOPTIC_KEY} |->
            IF k = TARGET_SEMANTIC_KEY
              THEN semantic
              ELSE [p \in DOMAIN pairs |-> EncodePanopticId(pairs[p], divisor)]]

InitRaw ==
  /\ pc = "ready"
  /\ dataset_info \in RawDatasetInfos
  /\ raw_panoptic_format \in RawFormats
  /\ convert_to_eval \in BOOLEAN
  /\ image_filename = [root |-> "000001", ext |-> ".png"]
  /\ sequence = "0002"
  /\ labels \in {<<>>} \cup
       [Pixels -> LabelPairs(RawSemanticLabels, RawInstanceIds,
                             dataset_info.panoptic_label_divisor)]
  /\ \E semantic \in [Pixels -> RawSemanticIds] :
       predictions = Bundle(semantic, labels,
                            dataset_info.panoptic_label_divisor)
  /\ raised = "None"
  /\ files = <<>>
  /\ locals = NoLocals
  /\ VisIdle
  /\ ModelIdle

\* One call of store_raw_predictions on the drawn arguments.
StoreRawPredictions ==
  /\ pc = "ready"
  /\ LET r == StoreRawResult(predictions, image_filename, dataset_info,
                             sequence, raw_panoptic_format, convert_to_eval)
     IN  /\ raised' = r.raised
         /\ files' = r.files
         /\ locals' = r.locals
  /\ pc' = "done"
  /\ UNCHANGED <<predictions, labels, dataset_info, raw_panoptic_format,
                 convert_to_eval, image_filename, sequence, visVars,
                 modelVars>>

NextRaw == StoreRawPredictions

SpecRaw == InitRaw /\ [][NextRaw]_vars

\* Calls on panoptic maps that encode every pair of a semantic label in
\* 0..MaxSemanticLabel and an instance id below the divisor, for every
\* divisor in 1..MaxDivisor.
InitCodec ==
  /\ pc = "ready"
  /\ \E divisor \in 1..MaxDivisor :
       dataset_info =
         DatasetDescriptor(cityscapes_panoptic, FALSE, divisor, 255, <<>>)
  /\ raw_panoptic_format = "two_channel_numpy_array"
  /\ convert_to_eval \in BOOLEAN
  /\ image_filename = [root |-> "000001", ext |-> ".png"]
  /\ sequence = "0002"
  /\ labels \in [Pixels -> LabelPairs(0..MaxSemanticLabel, 0..MaxDivisor,
                                      dataset_info.panoptic_label_divisor)]
  /\ predictions = Bundle([p \in Pixels |-> 0], labels,
                          dataset_info.panoptic_label_divisor)
  /\ raised = "None"
  /\ files = <<>>
  /\ locals = NoLocals
  /\ VisIdle
  /\ ModelIdle

SpecCodec == InitCodec /\ [][NextRaw]_vars

\* Train ids the conversion is also given beside the one that ranges over
\* 0..MaxTrainId: the first and the last id of the table, the first past it.
ConvertFillIds == {0, 19, 20}

\* Semantic predictions with one pixel ranging over every train id.
ConvertPredictions ==
  { [p \in Pixels |-> IF p = q THEN t ELSE fill[p]] :
      q \in Pixels, t \in 0..MaxTrainId, fill \in [Pixels -> ConvertFillIds] }

\* Converting calls on a cityscapes dataset, without a panoptic map.
InitConvert ==
  /\ pc = "ready"
  /\ dataset_info \in { DatasetDescriptor(cityscapes_panoptic, FALSE, 1000, 255, <<>>),
                        DatasetDescriptor(cityscapes_dvps, TRUE, 1000, 255, <<>>) }
  /\ raw_panoptic_format = "two_channel_png"
  /\ convert_to_eval = TRUE
  /\ image_filename = [root |-> "000001", ext |-> ".png"]
  /\ sequence = "0002"
  /\ labels = <<>>
  /\ \E semantic \in ConvertPredictions :
       predictions = Bundle(semantic, labels,
                            dataset_info.panoptic_label_divisor)
  /\ raised = "None"
  /\ files = <<>>
  /\ locals = NoLocals
  /\ VisIdle
  /\ ModelIdle

SpecConvert == InitConvert /\ [][NextRaw]_vars

\* The arguments of store_raw_predictions while store_predictions is called:
\* its defaults.
RawIdle ==
  /\ raw_panoptic_format = "two_channel_png"
  /\ convert_to_eval = TRUE
  /\ image_filename = [root |-> "000001", ext |-> ".png"]
  /\ sequence = ""
  /\ labels = <<>>
  /\ locals = NoLocals

\* Semantic predictions and raw ground-truth labels of the error-mask cases:
\* labels on both sides of the np.uint8 range.
VisPredictionIds == {0, 1, 255}
VisRawLabels == {0, 1, 255, 256, 511}
VisIgnoreLabels == {0, 255}
\* Image ids of up to, exactly and more than six digits.
VisImageIds == {7, 123456, 1234567}
\* Classes and thing lists of the foreground-mask cases.
VisClasses == {0, 1, 2}
VisThingLists == {<<>>, <<1>>, <<2, 1>>}
\* Colours flow_to_color may return for a pixel.
VisColors == {<<0, 0, 0>>, <<255, 128, 7>>}

\* The network's output: the semantic map alone, or every panoptic output.
\* The offset map is one pixel larger than the semantic map, as it is before
\* the padding is cropped.
VisBundle(semantic, with_panoptic, divisor) ==
  IF with_panoptic
    THEN (TARGET_SEMANTIC_KEY :> semantic)
         @@ (TARGET_PANOPTIC_KEY :>
               [p \in DOMAIN semantic |-> semantic[p] * divisor + p])
         @@ (TARGET_INSTANCE_KEY :> [p \in DOMAIN semantic |-> p])
         @@ (TARGET_CENTER_HEATMAP_KEY :> [p \in DOMAIN semantic |-> 0])
         @@ (TARGET_OFFSET_MAP_KEY :>
               [p \in 1..(Len(semantic) + 1) |-> <<0, 0>>])
    ELSE (TARGET_SEMANTIC_KEY :> semantic)

\* The input dict of one sample.
VisInputs(gt_raw, gt_semantic, divisor) ==
  (IMAGE :> [p \in DOMAIN gt_raw |-> <<p, p, p>>])
  @@ (IMAGE_NAME :> "frankfurt_000001")
  @@ (GT_SEMANTIC_RAW :> gt_raw)
  @@ (GT_SEMANTIC_KEY :> gt_semantic)
  @@ (GT_INSTANCE_CENTER_KEY :> [p \in DOMAIN gt_raw |-> 0])
  @@ (GT_INSTANCE_REGRESSION_KEY :> [p \in DOMAIN gt_raw |-> <<0, 0>>])
  @@ (GT_PANOPTIC_RAW :> [p \in DOMAIN gt_raw |-> gt_raw[p] * divisor])

\* Error-mask cases: every prediction against every raw label.
InitVisError ==
  /\ \E ignore \in VisIgnoreLabels :
       dataset_info = DatasetDescriptor(cityscapes_panoptic, FALSE, 1000,
                                        ignore, <<1>>)
  /\ \E semantic \in [Pixels -> VisPredictionIds], with_panoptic \in BOOLEAN :
       predictions = VisBundle(semantic, with_panoptic, 1000)
  /\ \E gt_raw \in [Pixels -> VisRawLabels] :
       inputs = VisInputs(gt_raw, [p \in Pixels |-> 0], 1000)
  /\ image_id \in VisImageIds
  /\ flow = [prediction |-> [p \in Pixels |-> <<255, 128, 7>>],
             label |-> [p \in Pixels |-> <<255, 128, 7>>]]

\* Foreground-mask cases: every class map against every thing list.
InitVisFgMask ==
  /\ \E things \in VisThingLists :
       dataset_info = DatasetDescriptor(cityscapes_panoptic, FALSE, 1000,
                                        255, things)
  /\ \E semantic \in [Pixels -> VisClasses] :
       predictions = VisBundle(semantic, TRUE, 1000)
  /\ \E gt_semantic \in [Pixels -> VisClasses] :
       inputs = VisInputs(gt_semantic, gt_semantic, 1000)
  /\ image_id = 7
  /\ \E prediction \in [Pixels -> VisColors], label \in [Pixels -> VisColors] :
       flow = [prediction |-> prediction, label |-> label]

InitVis ==
  /\ pc = "ready"
  /\ InitVisError \/ InitVisFgMask
  /\ raised = "None"
  /\ files = <<>>
  /\ RawIdle
  /\ ModelIdle

\* One call of store_predictions on the drawn arguments.
StorePredictions ==
  /\ pc = "ready"
  /\ files' = StorePredictionsResult(predictions, inputs, image_id,
                                     dataset_info, flow)
  /\ pc' = "done"
  /\ UNCHANGED <<predictions, dataset_info, raised, rawVars, visVars,
                 modelVars>>

NextVis == StorePredictions

SpecVis == InitVis /\ [][NextVis]_vars

-----------------------------------------------------------------------------
(* deeplab.DeepLab, as model/deeplab_test.py drives it.  model/deeplab.py   *)
(* is described by the specification only.                                 *)

resnet50 == <<"r", "e", "s", "n", "e", "t", "5", "0">>
mobilenet_v3_large ==
  <<"m", "o", "b", "i", "l", "e", "n", "e", "t", "_", "v", "3", "_",
    "l", "a", "r", "g", "e">>
not_a_resnet_backbone ==
  <<"n", "o", "t", "_", "a", "_", "r", "e", "s", "n", "e", "t", "_",
    "b", "a", "c", "k", "b", "o", "n", "e">>
not_a_backbone ==
  <<"n", "o", "t", "_", "a", "_", "b", "a", "c", "k", "b", "o", "n", "e">>
ResnetLiteral == <<"r", "e", "s", "n", "e", "t">>
MobilenetLiteral == <<"m", "o", "b", "i", "l", "e", "n", "e", "t">>

\* The fixed allow-list of backbone names.
BackboneAllowList == {resnet50, mobilenet_v3_large}

\* The encoder family a backbone name selects.
EncoderFamily(name) ==
  IF Contains(ResnetLiteral, name) THEN "resnet"
  ELSE IF Contains(MobilenetLiteral, name) THEN "mobilenet"
  ELSE "unsupported"

\* A validation that looks at the encoder family only.
ValidateEncoderFamilyOnly(name) ==
  IF EncoderFamily(name) = "unsupported"
    THEN [raised |-> "ValueError", cause |-> "encoder family"]
    ELSE [raised |-> "None", cause |-> "None"]

\* The validation of the backbone name at construction.
ValidateBackbone(name) ==
  IF EncoderFamily(name) = "unsupported"
    THEN [raised |-> "ValueError", cause |-> "encoder family"]
  ELSE IF name \notin BackboneAllowList
    THEN [raised |-> "ValueError", cause |-> "backbone name"]
  ELSE [raised |-> "None", cause |-> "None"]

\* python's None as a height or width: pooling windows are positive.
None == 0
\* The pooling size (None, None) of a reset ASPP pooling layer.
NoneSize == <<None, None>>
\* The pooling sizes a model may hold, one for each decoder that owns an ASPP.
AsppPoolSizes == {"semantic_pool_size", "instance_pool_size"}

PoolSizes == (1..MaxPoolEdge) \X (1..MaxPoolEdge)

\* The decoders of a freshly built model: the heads follow the populated
\* sub-config, each ASPP pooling layer starts with the size it was built with.
NewModel(meta_architecture, semantic_size, instance_size) ==
  IF meta_architecture = "panoptic_deeplab"
    THEN [meta_architecture |-> meta_architecture,
          semantic_pool_size |-> semantic_size,
          instance_pool_size |-> instance_size]
    ELSE [meta_architecture |-> meta_architecture,
          semantic_pool_size |-> semantic_size]

\* A set_pool_size that reaches the semantic decoder only.
SetSemanticPoolSizeOnly(m, pool_size) ==
  [m EXCEPT !.semantic_pool_size = pool_size]

\* set_pool_size(pool_size): every decoder that owns an ASPP takes the size.
SetPoolSizeOf(m, pool_size) ==
  [k \in DOMAIN m |-> IF k \in AsppPoolSizes THEN pool_size ELSE m[k]]

\* reset_pooling_layer(): every decoder that owns an ASPP drops its size.
ResetPoolingLayerOf(m) ==
  [k \in DOMAIN m |-> IF k \in AsppPoolSizes THEN NoneSize ELSE m[k]]

BackboneNames ==
  {resnet50, mobilenet_v3_large, not_a_resnet_backbone, not_a_backbone}
MetaArchitectures == {"deeplab_v3", "panoptic_deeplab"}

InitModel ==
  /\ pc = "idle"
  /\ predictions = <<>>
  /\ dataset_info = DatasetDescriptor(cityscapes_panoptic, FALSE, 1000, 255,
                                      <<>>)
  /\ raised = "None"
  /\ files = <<>>
  /\ RawIdle
  /\ VisIdle
  /\ ModelIdle

\* deeplab.DeepLab(config, dataset_descriptor)
DeepLab ==
  /\ pc = "idle"
  /\ \E name \in BackboneNames, meta_architecture \in MetaArchitectures :
       LET validation == ValidateBackbone(name)
       IN  /\ config' = [backbone_name |-> name,
                         meta_architecture |-> meta_architecture]
           /\ raised' = validation.raised
           /\ IF validation.raised = "None"
                THEN \E semantic_size \in PoolSizes \cup {NoneSize},
                        instance_size \in PoolSizes \cup {NoneSize} :
                       model' = NewModel(meta_architecture, semantic_size,
                                         instance_size)
                ELSE model' = NoModel
           /\ last_call' = [op |-> "DeepLab", pool_size |-> NoneSize,
                            cause |-> validation.cause]
  /\ UNCHANGED <<pc, predictions, dataset_info, files, rawVars, visVars>>

\* model.set_pool_size(pool_size)
SetPoolSize ==
  /\ pc = "idle"
  /\ model # NoModel
  /\ \E pool_size \in PoolSizes :
       /\ model' = SetPoolSizeOf(model, pool_size)
       /\ last_call' = [op |-> "set_pool_size", pool_size |-> pool_size,
                        cause |-> "None"]
  /\ UNCHANGED <<pc, predictions, dataset_info, raised, files, rawVars,
                 visVars, config>>

\* model.reset_pooling_layer()
ResetPoolingLayer ==
  /\ pc = "idle"
  /\ model # NoModel
  /\ model' = ResetPoolingLayerOf(model)
  /\ last_call' = [op |-> "reset_pooling_layer", pool_size |-> NoneSize,
                   cause |-> "None"]
  /\ UNCHANGED <<pc, predictions, dataset_info, raised, files, rawVars,
                 visVars, config>>

NextModel == DeepLab \/ SetPoolSize \/ ResetPoolingLayer

SpecModel == InitModel /\ [][NextModel]_vars

-----------------------------------------------------------------------------
(* Vocabulary of the properties of store_raw_predictions.                  *)

Done == pc = "done"

HasPanoptic == TARGET_PANOPTIC_KEY \in DOMAIN predictions

PanopticPixels ==
  IF HasPanoptic THEN DOMAIN predictions[TARGET_PANOPTIC_KEY] ELSE {}

\* The semantic id and the instance id of a pixel of the panoptic map.
SemanticId(p) ==
  predictions[TARGET_PANOPTIC_KEY][p] \div dataset_info.panoptic_label_divisor
InstanceId(p) ==
  predictions[TARGET_PANOPTIC_KEY][p] % dataset_info.panoptic_label_divisor

IsOverflow == raised \in {"OverflowSemantic", "OverflowInstance"}

CityscapesFamily ==
  dataset_info.dataset_name \in {cityscapes_panoptic, cityscapes_dvps}

\* The eval id of a train id in 0..255, read off the table.
ExpectedEvalId(t) ==
  IF t < 20 THEN CITYSCAPES_TRAIN_ID_TO_EVAL_ID[t + 1] ELSE 0

\* Every train id the call converts indexes the 256-entry lookup array.
TrainIdsInTable ==
  /\ \A p \in DOMAIN predictions[TARGET_SEMANTIC_KEY] :
       predictions[TARGET_SEMANTIC_KEY][p] <= 255
  /\ \A p \in PanopticPixels : SemanticId(p) <= 255

\* The call is not stopped by the eval-id conversion.
PassesConversion ==
  ~convert_to_eval \/ (CityscapesFamily /\ TrainIdsInTable)

\* The semantic label the panoptic output holds for a pixel: the semantic id,
\* converted to its eval id when convert_to_eval.
StoredSemanticLabel(p) ==
  IF convert_to_eval THEN ExpectedEvalId(SemanticId(p)) ELSE SemanticId(p)

IsPanopticArtifact(f) == f.folder[2] = "raw_panoptic"
IsSemanticArtifact(f) == f.folder[2] = "raw_semantic"

PanopticArtifacts == {i \in DOMAIN files : IsPanopticArtifact(files[i])}

\* The call returned after writing the raw semantic artifact and then one
\* panoptic artifact through `writer`.
WrotePanoptic(writer) ==
  /\ raised = "None"
  /\ Len(files) = 2
  /\ IsSemanticArtifact(files[1])
  /\ IsPanopticArtifact(files[2])
  /\ files[2].writer = writer
  /\ DOMAIN files[2].data = PanopticPixels

-----------------------------------------------------------------------------
(* C1: 'two_channel_png'.                                                  *)

-----------------------------------------------------------------------------
(* C2: 'three_channel_png'.                                                *)

-----------------------------------------------------------------------------
(* C3: unknown raw_panoptic_format.                                        *)

KnownFormats ==
  {"two_channel_png", "three_channel_png", "two_channel_numpy_array"}

-----------------------------------------------------------------------------
(* C4: 'two_channel_numpy_array'.                                          *)

-----------------------------------------------------------------------------
(* C5: convert_to_eval and the dataset.                                    *)

\* C5: the call fails with the unsupported-dataset error exactly when
\* convert_to_eval is true and the dataset name does not contain
\* 'cityscapes'; with convert_to_eval false the semantic ids are stored
\* unconverted; with convert_to_eval true on a cityscapes dataset the raw
\* semantic artifact and channel 0 of the panoptic artifact hold the eval
\* ids of the train ids.
C5_ConvertToEval ==
  Done =>
    /\ raised = "UnsupportedDataset" <=> (convert_to_eval /\ ~CityscapesFamily)
    /\ \A i \in DOMAIN files :
         /\ IsSemanticArtifact(files[i]) =>
              \A p \in DOMAIN predictions[TARGET_SEMANTIC_KEY] :
                files[i].data[p] =
                  IF convert_to_eval
                    THEN ExpectedEvalId(predictions[TARGET_SEMANTIC_KEY][p])
                    ELSE predictions[TARGET_SEMANTIC_KEY][p]
         /\ IsPanopticArtifact(files[i]) =>
              \A p \in PanopticPixels :
                files[i].data[p][1] =
                  IF convert_to_eval THEN ExpectedEvalId(SemanticId(p))
                                     ELSE SemanticId(p)
    /\ raised = "UnsupportedDataset" => files = <<>>

\* A converting call on a cityscapes dataset stored eval id 8 for train id 1
\* in both artifacts.
C5_Witness ==
  /\ Done /\ convert_to_eval /\ CityscapesFamily /\ HasPanoptic
  /\ raised = "None" /\ Len(files) = 2
  /\ \E p \in PanopticPixels :
       /\ predictions[TARGET_SEMANTIC_KEY][p] = 1
       /\ files[1].data[p] = 8
       /\ SemanticId(p) = 1
       /\ files[2].data[p][1] = 8

-----------------------------------------------------------------------------
(* C6: round trip of the panoptic encoding.                                *)

\* C6: for every divisor > 0, semantic label >= 0 and instance id below the
\* divisor, the panoptic id semantic * divisor + instance is decoded by
\* store_raw_predictions to that semantic label (// divisor) and that
\* instance id (% divisor), and the decoded instance id is below the
\* divisor.  The decoded semantic label is observed before the eval-id
\* conversion, so in calls with convert_to_eval false.
C6_RoundTrip ==
  (Done /\ HasPanoptic /\ raised = "None") =>
    \A p \in PanopticPixels :
      /\ locals.predicted_instance_labels[p] = labels[p][2]
      /\ locals.predicted_instance_labels[p]
           < dataset_info.panoptic_label_divisor
      /\ ~convert_to_eval =>
           locals.predicted_semantic_labels[p] = labels[p][1]
      /\ files[2].data[p][2] = labels[p][2]
      /\ ~convert_to_eval => files[2].data[p][1] = labels[p][1]

\* The pair (3, 2) encoded with divisor 3 as 11 came back as (3, 2).
C6_Witness ==
  /\ Done /\ HasPanoptic /\ raised = "None" /\ ~convert_to_eval
  /\ dataset_info.panoptic_label_divisor = 3
  /\ \E p \in PanopticPixels :
       /\ labels[p] = <<3, 2>>
       /\ predictions[TARGET_PANOPTIC_KEY][p] = 11
       /\ locals.predicted_semantic_labels[p] = 3
       /\ locals.predicted_instance_labels[p] = 2

-----------------------------------------------------------------------------
(* C9: the train-id to eval-id remap.                                      *)

TrainIds == predictions[TARGET_SEMANTIC_KEY]

\* C9: the conversion is an element-wise table lookup: train id t in 0..19
\* gives the t-th entry of (7, 8, 11, 12, 13, 17, 19, 20, 21, 22, 23, 24, 25,
\* 26, 27, 28, 31, 32, 33, 0), an id in 20..255 gives 0, the output has the
\* shape of the input and no converted value exceeds 33.  The converted
\* array is read off the raw semantic artifact of a converting call.
C9_TrainIdToEvalId ==
  (Done /\ convert_to_eval /\ CityscapesFamily
        /\ \A p \in DOMAIN TrainIds : TrainIds[p] \in 0..255) =>
    /\ raised = "None"
    /\ Len(files) >= 1
    /\ IsSemanticArtifact(files[1])
    /\ DOMAIN files[1].data = DOMAIN TrainIds
    /\ \A p \in DOMAIN TrainIds :
         /\ TrainIds[p] \in 0..19 =>
              files[1].data[p] =
                <<7, 8, 11, 12, 13, 17, 19, 20, 21, 22, 23, 24, 25, 26, 27,
                  28, 31, 32, 33, 0>>[TrainIds[p] + 1]
         /\ TrainIds[p] \in 20..255 => files[1].data[p] = 0
         /\ files[1].data[p] <= 33

\* Train ids 0 and 255 of one image were converted to 7 and 0.
C9_Witness ==
  /\ Done /\ convert_to_eval /\ CityscapesFamily /\ raised = "None"
  /\ Len(files) = 1
  /\ \E p, q \in DOMAIN TrainIds :
       /\ TrainIds[p] = 0 /\ files[1].data[p] = 7
       /\ TrainIds[q] = 255 /\ files[1].data[q] = 0

-----------------------------------------------------------------------------
(* store_predictions: the semantic error mask                               *)

\* The artifacts store_predictions wrote under the semantic-error name.
ErrorMasks ==
  { i \in DOMAIN files :
      /\ files[i].writer = "save_annotation"
      /\ files[i].filename.kind = ANALYSIS_FORMAT }

\* A call of store_predictions has returned.
VisDone == pc = "done" /\ inputs # NoInputs

\* The value the mask has at a pixel when it marks mismatches outside the
\* ignore label, on the labels as the caller passed them.
ExpectedError(p) ==
  IF /\ predictions[TARGET_SEMANTIC_KEY][p] # inputs[GT_SEMANTIC_RAW][p]
     /\ inputs[GT_SEMANTIC_RAW][p] # dataset_info.ignore_label
    THEN 255 ELSE 0

\* C10: the stored semantic error mask is 255 at a pixel exactly when the
\* semantic prediction differs from the ground-truth semantic label and that
\* label is not the ignore label, and 0 at every other pixel.
C10_ErrorMask ==
  VisDone =>
    /\ ErrorMasks # {}
    /\ \A i \in ErrorMasks : \A p \in Pixels :
         files[i].data[p] = ExpectedError(p)

\* C10 on ground-truth labels that np.uint8 holds: there the mask is as
\* stated, and it is the last artifact written.
C10_ErrorMaskOfUint8Labels ==
  (VisDone /\ \A p \in Pixels : inputs[GT_SEMANTIC_RAW][p] < Uint8Modulus) =>
    /\ ErrorMasks = {Len(files)}
    /\ \A p \in Pixels : files[Len(files)].data[p] = ExpectedError(p)

\* C10: a call whose ground truth holds label 256 where the network predicts
\* class 0 has returned.
C10_WrappedLabel ==
  /\ VisDone
  /\ \E p \in Pixels :
       /\ inputs[GT_SEMANTIC_RAW][p] = 256
       /\ predictions[TARGET_SEMANTIC_KEY][p] = 0
       /\ files[Len(files)].data[p] = 0

-----------------------------------------------------------------------------
(* deeplab.DeepLab: pooling sizes and construction errors                   *)

\* A panoptic-deeplab model exists.
HasPanopticModel ==
  model # NoModel /\ model.meta_architecture = "panoptic_deeplab"

\* C7: on a panoptic-deeplab model the semantic and the instance decoder hold
\* the size of the latest set_pool_size when that was the last operation, and
\* (None, None) when the last operation was reset_pooling_layer.
C7_PoolSize ==
  HasPanopticModel =>
    /\ last_call.op = "set_pool_size" =>
         /\ model.semantic_pool_size = last_call.pool_size
         /\ model.instance_pool_size = last_call.pool_size
    /\ last_call.op = "reset_pooling_layer" =>
         /\ model.semantic_pool_size = NoneSize
         /\ model.instance_pool_size = NoneSize

\* C7: set_pool_size((2, 1)) was the last call on a panoptic-deeplab model.
C7_Witness ==
  /\ HasPanopticModel
  /\ last_call.op = "set_pool_size"
  /\ last_call.pool_size = <<2, 1>>
  /\ model.instance_pool_size = <<2, 1>>

\* C8: a construction from a backbone name outside the allow-list, or of an
\* unsupported encoder family, raised ValueError and left no model; one from
\* an allowed name raised nothing.
C8_BackboneError ==
  config # NoConfig =>
    IF \/ config.backbone_name \notin BackboneAllowList
       \/ EncoderFamily(config.backbone_name) = "unsupported"
      THEN raised = "ValueError" /\ model = NoModel
      ELSE raised = "None" /\ model # NoModel

\* C8: the construction from 'not_a_resnet_backbone' raised ValueError.
C8_Witness ==
  /\ config # NoConfig
  /\ config.backbone_name = not_a_resnet_backbone
  /\ last_call.op = "DeepLab"
  /\ raised = "ValueError"
  /\ model = NoModel

-----------------------------------------------------------------------------
(* store_predictions: the foreground mask of the offset visualizations      *)

\* The artifacts store_predictions wrote under the name of a kind.
ArtifactsOfKind(kind) ==
  {i \in DOMAIN files : files[i].filename.kind = kind}

\* A call of store_predictions on a bundle with a panoptic map has returned.
VisPanopticDone == VisDone /\ TARGET_PANOPTIC_KEY \in DOMAIN predictions

\* The class at a pixel is one of the dataset's thing classes.
IsThing(class_id) ==
  \E i \in DOMAIN dataset_info.class_has_instances_list :
    dataset_info.class_has_instances_list[i] = class_id

\* A colour image with every pixel outside the thing classes of `label_map`
\* set to zero and every other pixel as it is.
ZeroedOutsideThings(rgb, label_map) ==
  [p \in Pixels |-> IF IsThing(label_map[p]) THEN rgb[p] ELSE <<0, 0, 0>>]

\* C11: the foreground mask is 1 at a pixel exactly when the pixel's class is
\* in the thing list and 0 otherwise, for the predicted and for the
\* ground-truth class map; the stored offset visualizations keep the colour of
\* every thing pixel and are zero at every other pixel.
C11_FgMask ==
  VisPanopticDone =>
    LET thing_list  == dataset_info.class_has_instances_list
        prediction  == predictions[TARGET_SEMANTIC_KEY]
        target      == inputs[GT_SEMANTIC_KEY]
    IN  /\ \A p \in Pixels :
             /\ GetFgMask(prediction, thing_list)[p]
                  = <<IF IsThing(prediction[p]) THEN 1 ELSE 0>>
             /\ GetFgMask(target, thing_list)[p]
                  = <<IF IsThing(target[p]) THEN 1 ELSE 0>>
        /\ ArtifactsOfKind(OFFSET_PREDICTION_RGB_FORMAT) # {}
        /\ \A i \in ArtifactsOfKind(OFFSET_PREDICTION_RGB_FORMAT) :
             files[i].data = ZeroedOutsideThings(flow.prediction, prediction)
        /\ ArtifactsOfKind(OFFSET_LABEL_FORMAT) # {}
        /\ \A i \in ArtifactsOfKind(OFFSET_LABEL_FORMAT) :
             files[i].data = ZeroedOutsideThings(flow.label, target)

\* C11: with two thing classes, a call has stored an offset prediction whose
\* first pixel (class 1, a thing) kept its colour and whose second pixel
\* (class 0, no thing) was zeroed.
C11_Witness ==
  /\ VisPanopticDone
  /\ dataset_info.class_has_instances_list = <<2, 1>>
  /\ predictions[TARGET_SEMANTIC_KEY][1] = 1
  /\ predictions[TARGET_SEMANTIC_KEY][2] = 0
  /\ flow.prediction[1] = <<255, 128, 7>>
  /\ flow.prediction[2] = <<255, 128, 7>>
  /\ \E i \in ArtifactsOfKind(OFFSET_PREDICTION_RGB_FORMAT) :
       /\ files[i].data[1] = <<255, 128, 7>>
       /\ files[i].data[2] = <<0, 0, 0>>

-----------------------------------------------------------------------------
(* store_predictions: which artifacts, in which order, under which names    *)

\* The kinds of the artifacts written, in the order of writing.
KindsWritten == [i \in DOMAIN files |-> files[i].filename.kind]

\* The kinds written only for a bundle with a panoptic map.
PanopticKinds ==
  {"center_prediction", "center_label", "offset_prediction_rgb",
   "offset_label", "instance_prediction", "panoptic_prediction",
   "panoptic_label"}

\* The number a sequence of decimal digits denotes.
RECURSIVE DecimalValue(_)
DecimalValue(digits) ==
  IF digits = <<>> THEN 0
  ELSE 10 * DecimalValue(SubSeq(digits, 1, Len(digits) - 1))
       + digits[Len(digits)]

\* `number` is what '%06d' prints for `id`: its decimal digits, at least six
\* of them, with leading zeros only to fill up the six.
IsSixDigitFormatOf(number, id) ==
  /\ \A i \in DOMAIN number : number[i] \in 0..9
  /\ DecimalValue(number) = id
  /\ Len(number) >= 6
  /\ Len(number) > 6 => number[1] # 0

\* C12: store_predictions writes the image, the semantic prediction, the
\* semantic label and, last, the semantic error mask; between the semantic
\* label and the error mask it writes the seven center, offset, instance and
\* panoptic artifacts, once each, exactly when the bundle holds a panoptic
\* map; every name is '%06d_<kind>' of the image id.
C12_ArtifactOrder ==
  VisDone =>
    LET n      == Len(files)
        middle == {KindsWritten[i] : i \in 4..(n - 1)}
    IN  /\ n >= 4
        /\ SubSeq(KindsWritten, 1, 3)
             = <<"image", "semantic_prediction", "semantic_label">>
        /\ KindsWritten[n] = "semantic_error"
        /\ IF TARGET_PANOPTIC_KEY \in DOMAIN predictions
             THEN middle = PanopticKinds /\ n = 11
             ELSE n = 4
        /\ \A i \in DOMAIN files :
             /\ IsSixDigitFormatOf(files[i].filename.number, image_id)
             /\ files[i].folder = <<"save_dir">>

\* C12: a call on a bundle with a panoptic map and an image id of seven
\* digits has written its eleven artifacts.
C12_Witness ==
  /\ VisDone
  /\ TARGET_PANOPTIC_KEY \in DOMAIN predictions
  /\ image_id = 1234567
  /\ Len(files) = 11
  /\ files[11].filename = [number |-> <<1, 2, 3, 4, 5, 6, 7>>,
                           kind |-> "semantic_error"]

\* C12: a call on a bundle without a panoptic map and image id 7 has written
\* its four artifacts.
C12_SemanticOnly ==
  /\ VisDone
  /\ TARGET_PANOPTIC_KEY \notin DOMAIN predictions
  /\ Len(files) = 4
  /\ files[1].filename = [number |-> <<0, 0, 0, 0, 0, 7>>, kind |-> "image"]

-----------------------------------------------------------------------------
(* store_raw_predictions: the order of validation and writes                *)

\* A call of store_raw_predictions has ended with an exception.
RawFailed == Done /\ inputs = NoInputs /\ raised # "None"

\* A call of store_raw_predictions has returned.
RawSucceeded == Done /\ inputs = NoInputs /\ raised = "None"

\* The folder of a kind of raw artifact: the sequence subdirectory for a
\* video dataset.
ExpectedFolder(kind) ==
  IF dataset_info.is_video_dataset THEN <<"save_dir", kind, sequence>>
                                   ELSE <<"save_dir", kind>>

\* C13: a failing call of store_raw_predictions writes no panoptic artifact;
\* the unsupported-dataset error comes before any write; an overflow or
\* unknown-format error comes after the raw semantic artifact was written
\* under 'raw_semantic'; a successful call on a bundle with a panoptic map
\* writes one raw semantic artifact, then one raw panoptic artifact under
\* 'raw_panoptic', each in the sequence subdirectory for a video dataset.
C13_WriteOrder ==
  /\ RawFailed => \A i \in DOMAIN files : files[i].folder[2] # "raw_panoptic"
  /\ (RawFailed /\ raised = "UnsupportedDataset") => files = <<>>
  /\ (RawFailed /\ raised \in {"OverflowSemantic", "OverflowInstance",
                               "UnknownFormat"}) =>
       /\ Len(files) = 1
       /\ files[1].folder = ExpectedFolder("raw_semantic")
  /\ (RawSucceeded /\ TARGET_PANOPTIC_KEY \in DOMAIN predictions) =>
       /\ Len(files) = 2
       /\ files[1].folder = ExpectedFolder("raw_semantic")
       /\ files[2].folder = ExpectedFolder("raw_panoptic")

\* C13: a call on a video dataset has failed with an instance overflow and
\* left the raw semantic artifact behind.
C13_Witness ==
  /\ RawFailed
  /\ raised = "OverflowInstance"
  /\ dataset_info.is_video_dataset
  /\ Len(files) = 1
  /\ files[1].folder = <<"save_dir", "raw_semantic", "0002">>

\* C13: a call on a video dataset has succeeded and written both artifacts.
C13_BothWritten ==
  /\ RawSucceeded
  /\ dataset_info.is_video_dataset
  /\ Len(files) = 2
  /\ files[2].folder = <<"save_dir", "raw_panoptic", "0002">>

\* C13: a call has failed on an unsupported dataset.
C13_UnsupportedDataset ==
  /\ RawFailed
  /\ raised = "UnsupportedDataset"
  /\ files = <<>>

\* C13: a call has failed on an unknown format.
C13_UnknownFormat ==
  /\ RawFailed
  /\ raised = "UnknownFormat"
  /\ Len(files) = 1

====
